---- MODULE Spec2Model ----
(***************************************************************************)
(* KAppMan: AppImage integration (kappman/core.py) and the directory       *)
(* watcher (kappman/watcher.py).                                           *)
(*                                                                         *)
(* Strings are sequences of tokens: "/w/Foo.AppImage" is                   *)
(* <<"/", "w", "/", "Foo", ".AppImage">>.  A token never contains "/",     *)
(* "=" or a line break, so str.endswith, str.split, str.splitlines,        *)
(* Path.name and Path.stem are computed on the token sequence the way      *)
(* Python computes them on the characters.                                 *)
(***************************************************************************)
EXTENDS Integers, Sequences, FiniteSets, TLC

VARIABLES
    files,      \* bundle files on disk: absolute path -> st_mode
    apps,       \* APPLICATIONS_DIR: file name -> file content
    icons,      \* ICONS_DIR: the file names in it
    dirs,       \* which of the two well-known directories exist
    last,       \* outcome of the most recent integrate / remove call
    reg,        \* history: display name -> path integrated and not removed
    startEmpty, \* history: APPLICATIONS_DIR held no descriptor initially
    wr,         \* the descriptor write in progress (open, not yet written)
    observer,   \* AppImageWatcher._observer: 0 is None, else an index of obs
    stopEvent,  \* AppImageWatcher._stop_event
    obs,        \* the Observer threads created so far
    pc,         \* where each thread is inside start / stop / run_forever
    calls,      \* number of start / stop / run_forever calls made
    changes,    \* number of changes made to the watched directory
    lastH,      \* history: the event handled most recently, and how it ended
    stopDone,   \* history: stop() returned and no start was invoked since
    stopInRF,   \* history: the stop() in progress was invoked during run_forever
    rfStopped,  \* history: such a stop() has returned, run_forever has not
    gui,        \* where the GUI thread is inside WatcherThread.stop
    signals,    \* the Qt signals the WatcherThread has emitted, in order
    cli,        \* outcome of the most recent main(argv) call
    win,        \* the main window: watch-dir setting, button, watcher threads
    th          \* remove / list calls in progress, one per calling thread

fsVars == <<files, apps, icons, dirs>>
appVars == <<signals, cli, win, th>>
coreVars == <<last, reg, startEmpty, wr, appVars>>
watchVars == <<observer, stopEvent, obs, pc, calls, changes, lastH, stopDone, stopInRF, rfStopped, gui>>
vars == <<files, apps, icons, dirs, last, reg, startEmpty, wr,
          observer, stopEvent, obs, pc, calls, changes, lastH, stopDone, stopInRF, rfStopped, gui,
          signals, cli, win, th>>

----------------------------------------------------------------------------
(* Strings and paths *)

NL == "\n"
EQ == "="
SEP == "/"
MARKER == "X-KAppMan-Source"
GENERIC_ICON == <<"application-x-executable">>

Last(s) == s[Len(s)]
Range(q) == {q[i] : i \in 1..Len(q)}
Front(s) == SubSeq(s, 1, Len(s) - 1)
MaxOf(S) == CHOOSE x \in S : \A y \in S : y <= x
MinOf(S) == CHOOSE x \in S : \A y \in S : x <= y

Join(dir, name) == IF name = <<>> THEN dir ELSE dir \o <<SEP>> \o name

HOME == <<SEP, "home">>
CWD == <<SEP, "w", EQ, "d">>
APPLICATIONS_DIR == <<SEP, "home", SEP, ".local", SEP, "share", SEP, "applications">>
ICONS_DIR == <<SEP, "home", SEP, ".local", SEP, "share", SEP, "icons", SEP, "kappman">>

\* os.path.abspath(os.path.expanduser(p))
expanduser(p) == IF Len(p) > 0 /\ p[1] = "~" THEN HOME \o Tail(p) ELSE p
abspath(p) == IF Len(p) > 0 /\ p[1] = SEP THEN p ELSE Join(CWD, p)
resolve(p) == abspath(expanduser(p))

\* Path.name: what follows the last separator
path_name(p) ==
    LET seps == {i \in 1..Len(p) : p[i] = SEP}
    IN  IF seps = {} THEN p ELSE SubSeq(p, MaxOf(seps) + 1, Len(p))

\* str.endswith for a suffix that is one token
endswith(s, suffix) == Len(s) > 0 /\ Last(s) = suffix

\* Path.stem: the name up to its last ".", unless that "." leads the name
DotTokens == {".desktop", ".AppImage", ".appimage", ".APPIMAGE", ".txt", ".png", ".svg"}
path_stem(name) ==
    LET dots == {i \in 1..Len(name) : name[i] \in DotTokens}
    IN  IF dots = {} \/ MaxOf(dots) = 1 THEN name
        ELSE SubSeq(name, 1, MaxOf(dots) - 1)

\* str.lower on the tokens that occur in file names
lower_tok(t) ==
    CASE t = ".AppImage" -> ".appimage"
      [] t = ".APPIMAGE" -> ".appimage"
      [] t = "Foo" -> "foo"
      [] OTHER -> t
lower(s) == [i \in 1..Len(s) |-> lower_tok(s[i])]

\* Code-point order of the tokens that start a differing position of two
\* file names ("." < "A" < "F" < "O" < "a" < "d" < "n" < "t").
TokRank(t) ==
    CASE t = ".APPIMAGE" -> 1
      [] t = ".AppImage" -> 2
      [] t = ".appimage" -> 3
      [] t = ".desktop" -> 4
      [] t = ".txt" -> 5
      [] t = "Foo" -> 6
      [] t = "Other" -> 7
      [] OTHER -> 8

RECURSIVE StrLess(_, _)
StrLess(a, b) ==
    IF a = <<>> THEN b # <<>>
    ELSE IF b = <<>> THEN FALSE
    ELSE IF a[1] = b[1] THEN StrLess(Tail(a), Tail(b))
    ELSE TokRank(a[1]) < TokRank(b[1])

\* sorted(S)
RECURSIVE sorted(_)
sorted(S) ==
    IF S = {} THEN <<>>
    ELSE LET m == CHOOSE x \in S : \A y \in S \ {x} : StrLess(x, y)
         IN  <<m>> \o sorted(S \ {m})

\* str.splitlines
RECURSIVE splitlines(_)
splitlines(c) ==
    IF c = <<>> THEN <<>>
    ELSE LET nls == {i \in 1..Len(c) : c[i] = NL}
         IN  IF nls = {} THEN <<c>>
             ELSE <<SubSeq(c, 1, MinOf(nls) - 1)>>
                  \o splitlines(SubSeq(c, MinOf(nls) + 1, Len(c)))

\* "X-KAppMan-Source=" in content
contains_marker(c) == \E i \in 1..(Len(c) - 1) : c[i] = MARKER /\ c[i + 1] = EQ

\* line.startswith("X-KAppMan-Source=")
startswith_marker(line) == Len(line) >= 2 /\ line[1] = MARKER /\ line[2] = EQ

\* line.split("=", 1)[1]
split_value(line) ==
    LET eqs == {i \in 1..Len(line) : line[i] = EQ}
    IN  SubSeq(line, MinOf(eqs) + 1, Len(line))

\* stat.S_IXUSR | stat.S_IXGRP | stat.S_IXOTH
S_IXALL == 73

\* A chmod that toggles the bits instead of adding them
RECURSIVE BitXor(_, _)
BitXor(a, b) ==
    IF a = 0 THEN b
    ELSE IF b = 0 THEN a
    ELSE (IF (a % 2) # (b % 2) THEN 1 ELSE 0) + 2 * BitXor(a \div 2, b \div 2)

RECURSIVE BitOr(_, _)
BitOr(a, b) ==
    IF a = 0 THEN b
    ELSE IF b = 0 THEN a
    ELSE (IF a % 2 = 1 \/ b % 2 = 1 THEN 1 ELSE 0) + 2 * BitOr(a \div 2, b \div 2)

----------------------------------------------------------------------------
(* kappman/core.py *)

FS == [files |-> files, apps |-> apps, icons |-> icons, dirs |-> dirs]

\* Removing one key of a function
Without(f, k) == [x \in (DOMAIN f) \ {k} |-> f[x]]
\* Writing one key of a function
With(f, k, v) == [x \in (DOMAIN f) \cup {k} |-> IF x = k THEN v ELSE f[x]]

ensure_dirs(d) == d \cup {"applications", "icons"}

desktop_name(app_name) == app_name \o <<".desktop">>
desktop_path(app_name) == Join(APPLICATIONS_DIR, desktop_name(app_name))

\* A display name from which every trailing suffix is taken
RECURSIVE strip_all(_)
strip_all(name) ==
    IF name # <<>> /\ Last(name) \in {".AppImage", ".appimage"}
    THEN strip_all(Front(name)) ELSE name
sanitize_name_all(file_path) == strip_all(path_name(file_path))

sanitize_name(file_path) ==
    LET name == path_name(file_path)
    IN  IF endswith(name, ".AppImage") THEN Front(name)
        ELSE IF endswith(name, ".appimage") THEN Front(name)
        ELSE name

\* f"{app_name}{suffix}" as a file name of ICONS_DIR
icon_name(app_name, suffix) == IF suffix = "" THEN app_name ELSE app_name \o <<suffix>>

\* Path.suffix of a file found in the unpacked tree
src_suffix(kind) == IF kind = ".DirIcon" THEN "" ELSE kind

\* A scratch directory made with mkdtemp and removed at the end of the
\* block: an exception skips the removal
mkdtemp_left(raised) == raised

\* with tempfile.TemporaryDirectory(...) as tmpdir: the directory is removed
\* when the block is left, by return and by exception alike
tmpdir_left(raised) == FALSE

\* _extract_icon: tool is whether unsquashfs is installed, tree the icon kinds
\* the unpacked image holds, fails whether the unpack or the copy raises.
\* Returns whether an icon was found, its name in ICONS_DIR, the new
\* ICONS_DIR and whether the scratch directory is left behind.
extract_icon(F, app_name, tool, tree, fails) ==
    IF ~tool THEN [found |-> FALSE, icon |-> <<>>, icons |-> F.icons, scratch |-> FALSE]
    ELSE IF fails \/ tree = {}
    THEN [found |-> FALSE, icon |-> <<>>, icons |-> F.icons,
          scratch |-> tmpdir_left(fails)]
    ELSE LET kind == IF ".png" \in tree THEN ".png"
                     ELSE IF ".svg" \in tree THEN ".svg"
                     ELSE ".DirIcon"
             dest == icon_name(app_name, src_suffix(kind))
         IN  \* shutil.copy2 into a directory keeps the source's name
             [found |-> TRUE, icon |-> dest,
              icons |-> F.icons \cup {IF dest = <<>> THEN <<kind>> ELSE dest},
              scratch |-> tmpdir_left(FALSE)]

\* A descriptor that records the bundle's file name instead of its path
desktop_content_relative(app_name, path, icon_value) ==
    <<"[Desktop Entry]", NL>>
    \o <<"Name", EQ>> \o app_name \o <<NL>>
    \o <<"Exec", EQ>> \o path_name(path) \o <<NL>>
    \o <<"Icon", EQ>> \o icon_value \o <<NL>>
    \o <<"Type", EQ, "Application", NL>>
    \o <<MARKER, EQ>> \o path_name(path) \o <<NL>>

desktop_content(app_name, path, icon_value) ==
    <<"[Desktop Entry]", NL>>
    \o <<"Name", EQ>> \o app_name \o <<NL>>
    \o <<"Exec", EQ>> \o path \o <<NL>>
    \o <<"Icon", EQ>> \o icon_value \o <<NL>>
    \o <<"Type", EQ, "Application", NL>>
    \o <<"Categories", EQ, "Utility;", NL>>
    \o <<"Terminal", EQ, "false", NL>>
    \o <<"StartupNotify", EQ, "true", NL>>
    \o <<"Comment", EQ, "AppImage managed by KAppMan", NL>>
    \o <<MARKER, EQ>> \o path \o <<NL>>

\* path.chmod: the system call is refused (EPERM -> PermissionError) for a
\* file that belongs to another user; the files under /opt belong to root.
owned_by_user(path) == ~(Len(path) >= 2 /\ path[1] = SEP /\ path[2] = "opt")

NONE == <<"None">>
NO_ENTRY == [app_name |-> NONE, exec_path |-> NONE, desktop_path |-> NONE, icon_path |-> NONE]

\* integrate_appimage with the existence check moved behind the descriptor
\* write: a missing bundle still leaves a descriptor behind.
integrate_appimage_late_check(F, file_path, tool, tree, fails) ==
    LET path == resolve(file_path)
        app_name == sanitize_name(path)
        dp == desktop_name(app_name)
    IN  [files |-> IF path \in DOMAIN F.files
                   THEN [F.files EXCEPT ![path] = BitOr(@, S_IXALL)] ELSE F.files,
         apps |-> With(F.apps, dp, desktop_content(app_name, path, GENERIC_ICON)),
         icons |-> F.icons,
         dirs |-> ensure_dirs(F.dirs),
         exc |-> IF path \in DOMAIN F.files THEN "None" ELSE "FileNotFoundError",
         ret |-> IF path \in DOMAIN F.files THEN "dict" ELSE "None",
         entry |-> IF path \in DOMAIN F.files
                   THEN [app_name |-> app_name, exec_path |-> path,
                         desktop_path |-> desktop_path(app_name), icon_path |-> NONE]
                   ELSE NO_ENTRY]

\* integrate_appimage: the file system after the call, the exception raised
\* ("None" when it returns), and the returned dict.
integrate_appimage(F, file_path, tool, tree, fails) ==
    LET path == resolve(file_path)
        d == ensure_dirs(F.dirs)
    IN  IF path \notin DOMAIN F.files
        THEN [files |-> F.files, apps |-> F.apps, icons |-> F.icons, dirs |-> d,
              exc |-> "FileNotFoundError", ret |-> "None", entry |-> NO_ENTRY]
        ELSE IF ~owned_by_user(path)
        THEN [files |-> F.files, apps |-> F.apps, icons |-> F.icons, dirs |-> d,
              exc |-> "PermissionError", ret |-> "None", entry |-> NO_ENTRY]
        ELSE LET app_name == sanitize_name(path)
                 x == extract_icon(F, app_name, tool, tree, fails)
                 icon_value == IF ~x.found THEN GENERIC_ICON
                               ELSE Join(ICONS_DIR, x.icon)
                 dp == desktop_name(app_name)
             IN  [files |-> [F.files EXCEPT ![path] = BitOr(@, S_IXALL)],
                  apps |-> With(F.apps, dp, desktop_content(app_name, path, icon_value)),
                  icons |-> x.icons,
                  dirs |-> d \cup (IF x.scratch THEN {"scratch"} ELSE {}),
                  exc |-> "None",
                  ret |-> "dict",
                  entry |-> [app_name |-> app_name,
                           exec_path |-> path,
                           desktop_path |-> desktop_path(app_name),
                           icon_path |-> IF ~x.found THEN NONE
                                         ELSE Join(ICONS_DIR, x.icon)]]

\* The icon loop of remove_appimage: the first of <name>.png, <name>.svg,
\* <name> that exists is unlinked.  ICONS_DIR / "" is ICONS_DIR itself, and
\* unlinking a directory raises.
remove_icon(F, app_name) ==
    LET exists(s) == IF icon_name(app_name, s) = <<>> THEN "icons" \in F.dirs
                     ELSE icon_name(app_name, s) \in F.icons
        hit == IF exists(".png") THEN ".png"
               ELSE IF exists(".svg") THEN ".svg"
               ELSE IF exists("") THEN ""
               ELSE "no"
    IN  IF hit = "no" THEN [icons |-> F.icons, exc |-> "None"]
        ELSE IF icon_name(app_name, hit) = <<>>
             THEN [icons |-> F.icons, exc |-> "IsADirectoryError"]
        ELSE [icons |-> F.icons \ {icon_name(app_name, hit)}, exc |-> "None"]

\* remove_appimage that first checks that the bundle still exists
remove_appimage_needs_bundle(F, file_path) ==
    LET path == resolve(file_path)
        app_name == sanitize_name(path)
        dp == desktop_name(app_name)
    IN  IF path \notin DOMAIN F.files \/ dp \notin DOMAIN F.apps
        THEN [files |-> F.files, apps |-> F.apps, icons |-> F.icons, dirs |-> F.dirs,
              exc |-> "None", ret |-> "False", entry |-> NO_ENTRY]
        ELSE LET r == remove_icon(F, app_name)
             IN  [files |-> F.files, apps |-> Without(F.apps, dp), icons |-> r.icons,
                  dirs |-> F.dirs, exc |-> r.exc,
                  ret |-> IF r.exc = "None" THEN "True" ELSE "None",
                  entry |-> NO_ENTRY]

\* A removal that takes the bundle file with it
remove_appimage_with_bundle(F, file_path) ==
    LET r == remove_appimage_needs_bundle(F, file_path)
    IN  [r EXCEPT !.files = Without(F.files, resolve(file_path)),
                  !.apps = Without(F.apps, desktop_name(sanitize_name(resolve(file_path)))),
                  !.ret = IF desktop_name(sanitize_name(resolve(file_path))) \in DOMAIN F.apps
                          THEN "True" ELSE "False"]

remove_appimage(F, file_path) ==
    LET path == resolve(file_path)
        app_name == sanitize_name(path)
        dp == desktop_name(app_name)
    IN  IF dp \notin DOMAIN F.apps
        THEN [files |-> F.files, apps |-> F.apps, icons |-> F.icons, dirs |-> F.dirs,
              exc |-> "None", ret |-> "False", entry |-> NO_ENTRY]
        ELSE LET r == remove_icon(F, app_name)
             IN  [files |-> F.files, apps |-> Without(F.apps, dp), icons |-> r.icons,
                  dirs |-> F.dirs, exc |-> r.exc,
                  ret |-> IF r.exc = "None" THEN "True" ELSE "None",
                  entry |-> NO_ENTRY]

\* The marker's value as list_integrated reads it: the first line that
\* starts with the marker, "" when no line does.
marker_value(content) ==
    LET lines == splitlines(content)
        hits == {i \in 1..Len(lines) : startswith_marker(lines[i])}
    IN  IF hits = {} THEN <<>> ELSE split_value(lines[MinOf(hits)])

RECURSIVE list_entries(_, _)
list_entries(F, names) ==
    IF names = <<>> THEN <<>>
    ELSE LET desktop_file == Head(names)
             content == F.apps[desktop_file]
             rest == list_entries(F, Tail(names))
         IN  IF ~contains_marker(content) THEN rest
             ELSE <<[app_name |-> path_stem(desktop_file),
                     exec_path |-> marker_value(content),
                     desktop_path |-> Join(APPLICATIONS_DIR, desktop_file)]>> \o rest

\* glob("*.desktop")
glob_desktop(F) == {f \in DOMAIN F.apps : endswith(f, ".desktop")}

list_integrated(F) ==
    IF "applications" \notin F.dirs THEN <<>>
    ELSE list_entries(F, sorted(glob_desktop(F)))

----------------------------------------------------------------------------
(* Direct calls of the core functions (CLI, GUI buttons, tests), one at a  *)
(* time, on a file system in which bundle files come and go.               *)

FOO_APPIMAGE == <<"Foo", ".AppImage">>
FOO_LOWER == <<"Foo", ".appimage">>
FOO_UPPER == <<"Foo", ".APPIMAGE">>
BARE_SUFFIX == <<".AppImage">>
NOTES_TXT == <<"notes", ".txt">>

\* File names that bundle files in the working directory take
BundleNames == {FOO_APPIMAGE, FOO_LOWER, BARE_SUFFIX}
\* Paths handed to integrate_appimage / remove_appimage
CallPaths == {FOO_APPIMAGE, Join(CWD, FOO_LOWER), Join(CWD, BARE_SUFFIX)}
\* st_mode of a freshly written bundle (0o644)
CreateModes == {420}
\* What icon extraction can meet: no unsquashfs, an unpack that raises, and
\* unpacked trees with and without icons
ExtractCases ==
    {[tool |-> FALSE, tree |-> {".png"}, fails |-> FALSE],
     [tool |-> TRUE, tree |-> {".png"}, fails |-> TRUE],
     [tool |-> TRUE, tree |-> {}, fails |-> FALSE],
     [tool |-> TRUE, tree |-> {".png", ".svg"}, fails |-> FALSE],
     [tool |-> TRUE, tree |-> {".png", ".DirIcon"}, fails |-> FALSE]}

WriteExtractCases ==
    {[tool |-> FALSE, tree |-> {}, fails |-> FALSE],
     [tool |-> TRUE, tree |-> {".png"}, fails |-> FALSE]}

\* Descriptors of other tools: one without the marker text, one in which
\* the marker line is commented out
FOREIGN_PLAIN ==
    <<"[Desktop Entry]", NL, "Name", EQ, "Foo", NL, "Exec", EQ, "foo", NL>>
FOREIGN_MENTION ==
    <<"[Desktop Entry]", NL, "Name", EQ, "Other", NL, "Exec", EQ, "other", NL,
      "#", MARKER, EQ, "old", NL>>
ForeignDirs ==
    {<<>>,
     With(With(<<>>, <<"Foo", ".desktop">>, FOREIGN_PLAIN),
          <<"Other", ".desktop">>, FOREIGN_MENTION)}

NO_CALL == [op |-> "none", arg |-> <<>>, exc |-> "None", ret |-> "None", entry |-> NO_ENTRY,
            again |-> FALSE]
\* No descriptor is open for writing
NO_WRITE == [name |-> <<>>, content |-> <<>>, old |-> <<>>, arg |-> <<>>,
             entry |-> NO_ENTRY, seen |-> "none"]

\* main has not been called
NO_MAIN == [argv |-> <<>>, sys_argv |-> <<>>, ran |-> "none", dir |-> <<>>,
            code |-> "None", exc |-> "None", out |-> <<>>,
            existed |-> FALSE, had |-> FALSE]
\* get_watch_dir(): the configured watch directory
DEFAULT_WATCH_DIR == Join(HOME, <<"AppImages">>)
OTHER_DIR == <<SEP, "d">>

\* The window after KAppManWindow.__init__: the watch-dir field shows the
\* configured directory, the watcher button is up, there is no watcher
\* thread.  threads are the WatcherThread objects created so far, thread is
\* self._watcher_thread (0 is None), at is where the GUI thread is inside
\* _on_watch_dir_changed.
NO_WINDOW == [setting |-> DEFAULT_WATCH_DIR, checked |-> FALSE, thread |-> 0,
              threads |-> <<>>, at |-> "idle", closed |-> FALSE]
\* The threads that call remove_appimage / list_integrated: the GUI thread
\* and the observer thread
Callers == {"gui", "observer"}
\* The thread is in no call
NO_OP == [op |-> "none", at |-> "idle", arg |-> <<>>, names |-> <<>>, scan |-> <<>>,
          out |-> <<>>, ret |-> "None", exc |-> "None", had |-> FALSE]

InitFS ==
    /\ files = <<>>
    /\ apps \in ForeignDirs
    /\ icons = {}
    /\ dirs = IF apps = <<>> THEN {} ELSE {"applications"}

NO_EVENT == [type |-> "none", src_path |-> <<>>, dest_path |-> <<>>, is_directory |-> FALSE]
NO_HANDLED == [obs |-> 0, prev |-> NO_EVENT, ev |-> NO_EVENT, exc |-> "None",
               called |-> <<>>, destExisted |-> FALSE]
Threads == {"worker", "ctl"}

InitCore ==
    /\ last = NO_CALL
    /\ reg = <<>>
    /\ startEmpty = (apps = <<>>)
    /\ wr = NO_WRITE
    /\ signals = <<>>
    /\ cli = NO_MAIN
    /\ win = NO_WINDOW
    /\ th = [t \in Callers |-> NO_OP]

\* AppImageWatcher.__init__, before any thread has called a method
InitWatcher ==
    /\ observer = 0
    /\ stopEvent = FALSE
    /\ obs = <<>>
    /\ pc = [t \in Threads |-> "idle"]
    /\ calls = 0
    /\ changes = 0
    /\ lastH = NO_HANDLED
    /\ stopDone = FALSE
    /\ stopInRF = FALSE
    /\ rfStopped = FALSE
    /\ gui = "none"

Init ==
    /\ InitFS
    /\ InitCore
    /\ InitWatcher

SetFS(r) ==
    /\ files' = r.files
    /\ apps' = r.apps
    /\ icons' = r.icons
    /\ dirs' = r.dirs

Integrate(p, tool, tree, fails) ==
    LET r == integrate_appimage(FS, p, tool, tree, fails)
    IN  /\ SetFS(r)
        /\ last' = [op |-> "integrate", arg |-> p, exc |-> r.exc, ret |-> r.ret,
                    entry |-> r.entry,
                    \* history: the call repeats the previous one on an
                    \* untouched bundle
                    again |-> /\ last.op = "integrate" /\ last.arg = p
                              /\ last.exc = "None" /\ r.entry = last.entry
                              /\ r.files = files]
        /\ reg' = IF r.exc = "None" THEN With(reg, sanitize_name(resolve(p)), resolve(p))
                  ELSE reg
        /\ UNCHANGED <<startEmpty, wr, appVars>>
        /\ UNCHANGED watchVars

Remove(p) ==
    LET r == remove_appimage(FS, p)
    IN  /\ SetFS(r)
        /\ last' = [op |-> "remove", arg |-> p, exc |-> r.exc, ret |-> r.ret,
                    entry |-> NO_ENTRY, again |-> FALSE]
        /\ reg' = Without(reg, sanitize_name(resolve(p)))
        /\ UNCHANGED <<startEmpty, wr, appVars>>
        /\ UNCHANGED watchVars

\* A bundle file appears in / disappears from the working directory
CreateFile(n, mode) ==
    /\ Join(CWD, n) \notin DOMAIN files
    /\ files' = With(files, Join(CWD, n), mode)
    /\ UNCHANGED <<apps, icons, dirs, last, reg, startEmpty, wr, appVars>>
    /\ UNCHANGED watchVars

DeleteFile(n) ==
    /\ Join(CWD, n) \in DOMAIN files
    /\ files' = Without(files, Join(CWD, n))
    /\ UNCHANGED <<apps, icons, dirs, last, reg, startEmpty, wr, appVars>>
    /\ UNCHANGED watchVars

Next ==
    \/ \E p \in CallPaths, x \in ExtractCases : Integrate(p, x.tool, x.tree, x.fails)
    \/ \E p \in CallPaths : Remove(p)
    \/ \E n \in BundleNames, mode \in CreateModes : CreateFile(n, mode)
    \/ \E n \in BundleNames : DeleteFile(n)

Spec == Init /\ [][Next]_vars

----------------------------------------------------------------------------
(* Direct calls in a wider environment: bundles written with different     *)
(* modes, a bundle of another user under /opt, and images that hold icons  *)
(* of different kinds.                                                     *)

\* unsquashfs is not installed
CliExtractCases == {[tool |-> FALSE, tree |-> {}, fails |-> FALSE]}

OPT_BUNDLE == <<SEP, "opt", SEP, "Sys", ".AppImage">>
EnvNames == {FOO_APPIMAGE}
EnvPaths == {FOO_APPIMAGE, OPT_BUNDLE}
\* 0o644 and 0o600
EnvModes == {420, 384}
EnvExtractCases ==
    {[tool |-> FALSE, tree |-> {}, fails |-> FALSE],
     [tool |-> TRUE, tree |-> {".png"}, fails |-> TRUE],
     [tool |-> TRUE, tree |-> {}, fails |-> FALSE],
     [tool |-> TRUE, tree |-> {".png"}, fails |-> FALSE],
     [tool |-> TRUE, tree |-> {".svg"}, fails |-> FALSE],
     [tool |-> TRUE, tree |-> {".DirIcon"}, fails |-> FALSE]}

InitEnv ==
    \* 0o755, owned by root
    /\ files = With(<<>>, OPT_BUNDLE, 493)
    /\ apps = <<>>
    /\ icons = {}
    /\ dirs = {}
    /\ InitCore
    /\ InitWatcher

NextEnv ==
    \/ \E p \in EnvPaths, x \in EnvExtractCases : Integrate(p, x.tool, x.tree, x.fails)
    \/ \E p \in EnvPaths : Remove(p)
    \/ \E n \in EnvNames, mode \in EnvModes : CreateFile(n, mode)
    \/ \E n \in EnvNames : DeleteFile(n)

SpecEnv == InitEnv /\ [][NextEnv]_vars

----------------------------------------------------------------------------
(* Direct calls for bundles whose file names end with the suffix once,     *)
(* twice and not at all.                                                   *)

FOO_FOO == <<"foo", ".appimage">>
NO_SUFFIX == <<"NoSuffix">>
FOO_TWICE == <<"Foo", ".AppImage", ".AppImage">>
SuffixNames == {FOO_APPIMAGE, FOO_FOO, NO_SUFFIX, FOO_TWICE}

InitNames ==
    /\ files = [f \in {Join(CWD, n) : n \in SuffixNames} |-> 420]
    /\ apps = <<>>
    /\ icons = {}
    /\ dirs = {}
    /\ InitCore
    /\ InitWatcher

NextNames ==
    \/ \E p \in SuffixNames, x \in CliExtractCases : Integrate(p, x.tool, x.tree, x.fails)
    \/ \E p \in SuffixNames : Remove(p)

SpecNames == InitNames /\ [][NextNames]_vars

----------------------------------------------------------------------------
(* The descriptor write of integrate_appimage, step by step, while another *)
(* thread (the GUI's list refresh, the CLI) calls list_integrated.         *)

\* integrate_appimage up to and including the open(dp, "w") of
\* Path.write_text, which truncates the descriptor
IntegrateBegin(p, tool, tree, fails) ==
    LET r == integrate_appimage(FS, p, tool, tree, fails)
        dp == desktop_name(sanitize_name(resolve(p)))
    IN  /\ wr = NO_WRITE
        /\ r.exc = "None"
        /\ files' = r.files
        /\ icons' = r.icons
        /\ dirs' = r.dirs
        /\ apps' = With(apps, dp, <<>>)
        /\ wr' = [name |-> dp, content |-> r.apps[dp],
                  old |-> IF dp \in DOMAIN apps THEN apps[dp] ELSE <<>>,
                  arg |-> p, entry |-> r.entry, seen |-> "none"]
        /\ UNCHANGED <<last, reg, startEmpty, appVars>>
        /\ UNCHANGED watchVars

\* Path.write_text writes the content and closes the file; integrate_appimage
\* returns
IntegrateEnd ==
    /\ wr # NO_WRITE
    /\ apps' = With(apps, wr.name, wr.content)
    /\ last' = [op |-> "integrate", arg |-> wr.arg, exc |-> "None", ret |-> "dict",
                entry |-> wr.entry, again |-> FALSE]
    /\ reg' = With(reg, sanitize_name(resolve(wr.arg)), resolve(wr.arg))
    /\ wr' = NO_WRITE
    /\ UNCHANGED <<files, icons, dirs, startEmpty, appVars>>
    /\ UNCHANGED watchVars

\* list_integrated on another thread while the descriptor is open: whether
\* its result has an entry for the descriptor being written
ListDuringWrite ==
    /\ wr # NO_WRITE
    /\ wr' = [wr EXCEPT !.seen =
                 IF \E i \in 1..Len(list_integrated(FS)) :
                        list_integrated(FS)[i].desktop_path = Join(APPLICATIONS_DIR, wr.name)
                 THEN "listed" ELSE "missing"]
    /\ UNCHANGED <<fsVars, last, reg, startEmpty, appVars>>
    /\ UNCHANGED watchVars

NextWrite ==
    \/ \E p \in CallPaths, x \in WriteExtractCases : IntegrateBegin(p, x.tool, x.tree, x.fails)
    \/ IntegrateEnd
    \/ ListDuringWrite
    \/ \E n \in BundleNames, mode \in CreateModes : CreateFile(n, mode)

SpecWrite == Init /\ [][NextWrite]_vars

----------------------------------------------------------------------------
(* kappman/watcher.py: the event handler *)

\* AppImageEventHandler._is_appimage
is_appimage(path) == endswith(lower(path), ".appimage")

KeepFS(F) == [files |-> F.files, apps |-> F.apps, icons |-> F.icons, dirs |-> F.dirs]

\* Each handler returns the file system it leaves, the exception that leaves
\* the handler ("None" when it returns) and the core calls it made, each with
\* what it returned or raised.
on_created(F, event, x) ==
    IF event.is_directory \/ ~is_appimage(event.src_path)
    THEN [fs |-> KeepFS(F), exc |-> "None", called |-> <<>>]
    ELSE LET r == integrate_appimage(F, event.src_path, x.tool, x.tree, x.fails)
         IN  \* except Exception: logger.exception(...)
             [fs |-> KeepFS(r), exc |-> "None",
              called |-> << [op |-> "integrate", arg |-> event.src_path,
                             result |-> IF r.exc = "None" THEN r.ret ELSE r.exc] >>]

\* A deleted handler that does not look at event.is_directory
on_deleted_any(F, event) ==
    IF ~is_appimage(event.src_path)
    THEN [fs |-> KeepFS(F), exc |-> "None", called |-> <<>>]
    ELSE LET r == remove_appimage(F, event.src_path)
         IN  [fs |-> KeepFS(r), exc |-> r.exc,
              called |-> << [op |-> "remove", arg |-> event.src_path,
                             result |-> IF r.exc = "None" THEN r.ret ELSE r.exc] >>]

on_deleted(F, event) ==
    IF event.is_directory \/ ~is_appimage(event.src_path)
    THEN [fs |-> KeepFS(F), exc |-> "None", called |-> <<>>]
    ELSE LET r == remove_appimage(F, event.src_path)
         IN  [fs |-> KeepFS(r), exc |-> r.exc,
              called |-> << [op |-> "remove", arg |-> event.src_path,
                             result |-> IF r.exc = "None" THEN r.ret ELSE r.exc] >>]

on_moved(F, event, x) ==
    IF event.is_directory
    THEN [fs |-> KeepFS(F), exc |-> "None", called |-> <<>>]
    ELSE LET d == IF is_appimage(event.src_path)
                  THEN on_deleted(F, [type |-> "deleted", src_path |-> event.src_path,
                                      dest_path |-> <<>>, is_directory |-> FALSE])
                  ELSE [fs |-> KeepFS(F), exc |-> "None", called |-> <<>>]
         IN  IF d.exc # "None" THEN d
             ELSE IF ~is_appimage(event.dest_path) THEN d
             ELSE LET c == on_created(d.fs, [type |-> "created", src_path |-> event.dest_path,
                                             dest_path |-> <<>>, is_directory |-> FALSE], x)
                  IN  [fs |-> c.fs, exc |-> c.exc, called |-> d.called \o c.called]

\* FileSystemEventHandler.dispatch
dispatch(F, event, x) ==
    CASE event.type = "created" -> on_created(F, event, x)
      [] event.type = "deleted" -> on_deleted(F, event)
      [] event.type = "moved" -> on_moved(F, event, x)
      [] OTHER -> [fs |-> KeepFS(F), exc |-> "None", called |-> <<>>]

----------------------------------------------------------------------------
(* kappman/watcher.py: AppImageWatcher and the Observer threads it starts  *)

\* Bounds of the watcher model
MaxCalls == 3
MaxChanges == 3
LifeChanges == 2
MaxQueue == 2

\* File names that appear in the watched directory (watch_dir is CWD)
WatchNames == {FOO_APPIMAGE, FOO_LOWER, FOO_UPPER, BARE_SUFFIX, NOTES_TXT}
\* ... while the lifecycle is exercised
LifeNames == {FOO_APPIMAGE}
WatchExtractCases ==
    {[tool |-> FALSE, tree |-> {}, fails |-> FALSE],
     [tool |-> TRUE, tree |-> {".png"}, fails |-> FALSE]}

LifeExtractCases == {[tool |-> FALSE, tree |-> {}, fails |-> FALSE]}

NEW_OBSERVER == [state |-> "new", queue |-> <<>>, cur |-> NO_EVENT, prev |-> NO_EVENT]

\* Thread.is_alive
is_alive(o) == o.state \in {"alive", "stopping"}

\* An Observer.stop that leaves the dispatch loop running
observer_stop_ignored(o) == o

\* Observer.stop: the dispatch loop ends after the event in flight
observer_stop(o) ==
    CASE o.state = "alive" -> [o EXCEPT !.state = "stopping"]
      [] o.state = "new" -> [o EXCEPT !.state = "newStopped"]
      [] OTHER -> o

\* The inotify emitters of the running observers queue an event
Emit(ev, bound) ==
    /\ changes < bound
    /\ \A i \in 1..Len(obs) : obs[i].state = "alive" => Len(obs[i].queue) < MaxQueue
    /\ changes' = changes + 1
    /\ obs' = [i \in 1..Len(obs) |->
                 IF obs[i].state = "alive"
                 THEN [obs[i] EXCEPT !.queue = Append(@, ev)] ELSE obs[i]]

WatchFrame == UNCHANGED <<coreVars, observer, stopEvent, pc, calls, lastH, stopDone, stopInRF, rfStopped, gui>>

FsCreate(n, mode, bound) ==
    /\ Join(CWD, n) \notin DOMAIN files
    /\ files' = With(files, Join(CWD, n), mode)
    /\ Emit([type |-> "created", src_path |-> Join(CWD, n), dest_path |-> <<>>,
             is_directory |-> FALSE], bound)
    /\ UNCHANGED <<apps, icons, dirs>>
    /\ WatchFrame

FsDelete(n, bound) ==
    /\ Join(CWD, n) \in DOMAIN files
    /\ files' = Without(files, Join(CWD, n))
    /\ Emit([type |-> "deleted", src_path |-> Join(CWD, n), dest_path |-> <<>>,
             is_directory |-> FALSE], bound)
    /\ UNCHANGED <<apps, icons, dirs>>
    /\ WatchFrame

FsMove(a, b, bound) ==
    /\ a # b
    /\ Join(CWD, a) \in DOMAIN files
    /\ files' = With(Without(files, Join(CWD, a)), Join(CWD, b), files[Join(CWD, a)])
    /\ Emit([type |-> "moved", src_path |-> Join(CWD, a), dest_path |-> Join(CWD, b),
             is_directory |-> FALSE], bound)
    /\ UNCHANGED <<apps, icons, dirs>>
    /\ WatchFrame

\* The observer thread takes the next event off its queue ...
ObsTake(i) ==
    /\ obs[i].state = "alive"
    /\ obs[i].cur = NO_EVENT
    /\ obs[i].queue # <<>>
    /\ obs' = [obs EXCEPT ![i].cur = Head(obs[i].queue), ![i].queue = Tail(obs[i].queue)]
    /\ UNCHANGED <<fsVars, coreVars, observer, stopEvent, pc, calls, changes, lastH,
                   stopDone, stopInRF, rfStopped, gui>>

\* ... and runs the handler on it; an exception leaving the handler ends
\* the thread.
ObsHandle(i, x) ==
    /\ is_alive(obs[i])
    /\ obs[i].cur # NO_EVENT
    /\ LET ev == obs[i].cur
           r == dispatch(FS, ev, x)
       IN  /\ SetFS(r.fs)
           /\ obs' = [obs EXCEPT ![i].cur = NO_EVENT, ![i].prev = ev,
                                 ![i].state = IF r.exc = "None" THEN @ ELSE "crashed"]
           /\ lastH' = [obs |-> i, prev |-> obs[i].prev, ev |-> ev, exc |-> r.exc,
                        called |-> r.called,
                        destExisted |-> ev.dest_path \in DOMAIN files]
    /\ UNCHANGED <<coreVars, observer, stopEvent, pc, calls, changes,
                   stopDone, stopInRF, rfStopped, gui>>

\* The dispatch loop sees the stop request and the thread ends
ObsExit(i) ==
    /\ obs[i].state = "stopping"
    /\ obs[i].cur = NO_EVENT
    /\ obs' = [obs EXCEPT ![i].state = "dead"]
    /\ UNCHANGED <<fsVars, coreVars, observer, stopEvent, pc, calls, changes, lastH,
                   stopDone, stopInRF, rfStopped, gui>>

InRunForever(t) == pc[t] \in {"rf_clear", "rf_new", "rf_run", "rf_wait", "rf_chk", "rf_stop", "rf_join"}

\* A thread enters start(), stop() or run_forever()
Invoke(t, m) ==
    /\ pc[t] = "idle"
    /\ calls < MaxCalls
    /\ calls' = calls + 1
    /\ pc' = [pc EXCEPT ![t] = CASE m = "start" -> "start_clear"
                                 [] m = "stop" -> "stop_set"
                                 [] OTHER -> "rf_clear"]
    /\ stopDone' = IF m = "stop" THEN stopDone ELSE FALSE
    /\ stopInRF' = IF m = "stop" THEN (\E u \in Threads \ {t} : InRunForever(u)) ELSE stopInRF
    /\ rfStopped' = IF m = "stop" THEN rfStopped ELSE FALSE
    /\ UNCHANGED <<fsVars, coreVars, observer, stopEvent, obs, changes, lastH>>

\* A thread calls start(), stop() or run_forever()
Call(t, m) ==
    /\ Invoke(t, m)
    /\ UNCHANGED gui

LifeFrame == UNCHANGED <<fsVars, coreVars, calls, changes, lastH, gui>>

\* start(): self.watch_dir.mkdir(...); self._stop_event.clear()
StartClear(t) ==
    /\ pc[t] \in {"start_clear", "rf_clear"}
    /\ stopEvent' = FALSE
    /\ pc' = [pc EXCEPT ![t] = IF pc[t] = "start_clear" THEN "start_new" ELSE "rf_new"]
    /\ UNCHANGED <<observer, obs, stopDone, stopInRF, rfStopped>>
    /\ LifeFrame

\* start(): self._observer = Observer()
StartNew(t) ==
    /\ pc[t] \in {"start_new", "rf_new"}
    /\ obs' = Append(obs, NEW_OBSERVER)
    /\ observer' = Len(obs) + 1
    /\ pc' = [pc EXCEPT ![t] = IF pc[t] = "start_new" THEN "start_run" ELSE "rf_run"]
    /\ UNCHANGED <<stopEvent, stopDone, stopInRF, rfStopped>>
    /\ LifeFrame

\* start(): self._observer.schedule(...); self._observer.start().  Starting
\* a thread a second time raises RuntimeError, which ends the call.
StartRun(t) ==
    /\ pc[t] \in {"start_run", "rf_run"}
    /\ LET o == obs[observer]
           raised == o.state \notin {"new", "newStopped"}
       IN  /\ obs' = IF raised THEN obs
                     ELSE [obs EXCEPT ![observer].state =
                             IF o.state = "new" THEN "alive" ELSE "stopping"]
           /\ pc' = [pc EXCEPT ![t] = IF pc[t] = "rf_run" /\ ~raised THEN "rf_wait" ELSE "idle"]
           /\ rfStopped' = IF pc[t] = "rf_run" /\ raised THEN FALSE ELSE rfStopped
    /\ UNCHANGED <<observer, stopEvent, stopDone, stopInRF>>
    /\ LifeFrame

\* stop(): self._stop_event.set()
StopSet(t) ==
    /\ pc[t] = "stop_set"
    /\ stopEvent' = TRUE
    /\ pc' = [pc EXCEPT ![t] = "stop_chk"]
    /\ UNCHANGED <<observer, obs, stopDone, stopInRF, rfStopped>>
    /\ LifeFrame

\* A call of t returns (normally or by an exception)
Return(t, normal) ==
    /\ pc' = [pc EXCEPT ![t] = "idle"]
    /\ stopDone' = IF pc[t] \in {"stop_chk", "stop_join"} /\ normal THEN TRUE ELSE stopDone
    /\ rfStopped' = IF pc[t] \in {"stop_chk", "stop_join"} THEN (normal /\ stopInRF)
                    ELSE FALSE
    /\ stopInRF' = IF pc[t] \in {"stop_chk", "stop_join"} THEN FALSE ELSE stopInRF

\* if self._observer and self._observer.is_alive():  (stop and run_forever)
CheckAlive(t) ==
    /\ pc[t] \in {"stop_chk", "rf_chk"}
    /\ IF observer # 0 /\ is_alive(obs[observer])
       THEN /\ pc' = [pc EXCEPT ![t] = IF pc[t] = "stop_chk" THEN "stop_stop" ELSE "rf_stop"]
            /\ UNCHANGED <<stopDone, stopInRF, rfStopped>>
       ELSE Return(t, TRUE)
    /\ UNCHANGED <<observer, stopEvent, obs>>
    /\ LifeFrame

\* self._observer.stop()
ObserverStop(t) ==
    /\ pc[t] \in {"stop_stop", "rf_stop"}
    /\ obs' = [obs EXCEPT ![observer] = observer_stop(@)]
    /\ pc' = [pc EXCEPT ![t] = IF pc[t] = "stop_stop" THEN "stop_join" ELSE "rf_join"]
    /\ UNCHANGED <<observer, stopEvent, stopDone, stopInRF, rfStopped>>
    /\ LifeFrame

\* self._observer.join(): blocks while the thread runs; joining a thread
\* that was never started raises RuntimeError.
ObserverJoin(t) ==
    /\ pc[t] \in {"stop_join", "rf_join"}
    /\ ~is_alive(obs[observer])
    /\ Return(t, obs[observer].state \in {"dead", "crashed"})
    /\ UNCHANGED <<observer, stopEvent, obs>>
    /\ LifeFrame

\* run_forever(): self._stop_event.wait()
Wait(t) ==
    /\ pc[t] = "rf_wait"
    /\ stopEvent
    /\ pc' = [pc EXCEPT ![t] = "rf_chk"]
    /\ UNCHANGED <<observer, stopEvent, obs, stopDone, stopInRF, rfStopped>>
    /\ LifeFrame

Methods(t) == IF t = "worker" THEN {"start", "run_forever"} ELSE {"start", "stop"}

InitWatch ==
    /\ files = <<>>
    /\ apps = <<>>
    /\ icons = {}
    /\ dirs = {}
    /\ InitCore
    /\ InitWatcher

\* The lifecycle: two threads call start / stop / run_forever while files
\* come and go in the watched directory.
NextLife ==
    \/ \E t \in Threads : \E m \in Methods(t) : Call(t, m)
    \/ \E t \in Threads : StartClear(t)
    \/ \E t \in Threads : StartNew(t)
    \/ \E t \in Threads : StartRun(t)
    \/ \E t \in Threads : StopSet(t)
    \/ \E t \in Threads : CheckAlive(t)
    \/ \E t \in Threads : ObserverStop(t)
    \/ \E t \in Threads : ObserverJoin(t)
    \/ \E t \in Threads : Wait(t)
    \/ \E i \in 1..Len(obs) : ObsTake(i)
    \/ \E i \in 1..Len(obs), x \in LifeExtractCases : ObsHandle(i, x)
    \/ \E i \in 1..Len(obs) : ObsExit(i)
    \/ \E n \in LifeNames, mode \in CreateModes : FsCreate(n, mode, LifeChanges)
    \/ \E n \in LifeNames : FsDelete(n, LifeChanges)

SpecLife == InitWatch /\ [][NextLife]_vars

\* The running monitor: the watcher is started once and handles the events
\* of the watched directory.
StartOnce ==
    /\ observer = 0
    /\ calls = 0
    /\ Call("ctl", "start")

NextMon ==
    \/ StartOnce
    \/ StartClear("ctl")
    \/ StartNew("ctl")
    \/ StartRun("ctl")
    \/ \E i \in 1..Len(obs) : ObsTake(i)
    \/ \E i \in 1..Len(obs), x \in WatchExtractCases : ObsHandle(i, x)
    \/ \E n \in WatchNames, mode \in CreateModes : FsCreate(n, mode, MaxChanges)
    \/ \E n \in WatchNames : FsDelete(n, MaxChanges)
    \/ \E a \in WatchNames, b \in WatchNames : FsMove(a, b, MaxChanges)

SpecMon == InitWatch /\ [][NextMon]_vars

\* The running monitor while directories and other files come and go in
\* the watched directory next to a bundle.  A directory is an entry of
\* files whose st_mode has S_IFDIR set (0o40755).
S_IFDIR_755 == 16877
PKG == <<"Pkg">>
FilterFiles == {FOO_APPIMAGE, NOTES_TXT}
FilterDirs == {FOO_LOWER, PKG}

FsMkdir(n, bound) ==
    /\ Join(CWD, n) \notin DOMAIN files
    /\ files' = With(files, Join(CWD, n), S_IFDIR_755)
    /\ Emit([type |-> "created", src_path |-> Join(CWD, n), dest_path |-> <<>>,
             is_directory |-> TRUE], bound)
    /\ UNCHANGED <<apps, icons, dirs>>
    /\ WatchFrame

FsRmdir(n, bound) ==
    /\ Join(CWD, n) \in DOMAIN files
    /\ files' = Without(files, Join(CWD, n))
    /\ Emit([type |-> "deleted", src_path |-> Join(CWD, n), dest_path |-> <<>>,
             is_directory |-> TRUE], bound)
    /\ UNCHANGED <<apps, icons, dirs>>
    /\ WatchFrame

FsMoveDir(a, b, bound) ==
    /\ a # b
    /\ Join(CWD, a) \in DOMAIN files
    /\ Join(CWD, b) \notin DOMAIN files
    /\ files' = With(Without(files, Join(CWD, a)), Join(CWD, b), files[Join(CWD, a)])
    /\ Emit([type |-> "moved", src_path |-> Join(CWD, a), dest_path |-> Join(CWD, b),
             is_directory |-> TRUE], bound)
    /\ UNCHANGED <<apps, icons, dirs>>
    /\ WatchFrame

NextFilter ==
    \/ StartOnce
    \/ StartClear("ctl")
    \/ StartNew("ctl")
    \/ StartRun("ctl")
    \/ \E i \in 1..Len(obs) : ObsTake(i)
    \/ \E i \in 1..Len(obs), x \in LifeExtractCases : ObsHandle(i, x)
    \/ \E n \in FilterFiles, mode \in CreateModes : FsCreate(n, mode, MaxChanges)
    \/ \E n \in FilterFiles : FsDelete(n, MaxChanges)
    \/ \E n \in FilterDirs : FsMkdir(n, MaxChanges)
    \/ \E n \in FilterDirs : FsRmdir(n, MaxChanges)
    \/ \E a \in FilterDirs, b \in FilterDirs : FsMoveDir(a, b, MaxChanges)

SpecFilter == InitWatch /\ [][NextFilter]_vars

\* What the one observer thread does
ObsStep ==
    \/ \E i \in 1..Len(obs) : ObsTake(i)
    \/ \E i \in 1..Len(obs), x \in LifeExtractCases : ObsHandle(i, x)
    \/ \E i \in 1..Len(obs) : ObsExit(i)

\* The observer thread keeps running: it takes the next event or ends when
\* it can, and a handler it has entered returns.  The second conjunct is
\* WF_obs(ObsHandleStep) written out, ObsHandleEnabled being the guard of
\* ObsHandle.
ObsQueueStep ==
    \/ \E i \in 1..Len(obs) : ObsTake(i)
    \/ \E i \in 1..Len(obs) : ObsExit(i)
ObsHandleStep == \E i \in 1..Len(obs), x \in LifeExtractCases : ObsHandle(i, x)
ObsHandleEnabled == \E i \in 1..Len(obs) : is_alive(obs[i]) /\ obs[i].cur # NO_EVENT
ObsFair ==
    /\ WF_vars(ObsQueueStep)
    /\ ([]<>(~ObsHandleEnabled) \/ []<><<ObsHandleStep>>_obs)

\* The steps of stop() on thread t
StopStep(t) ==
    \/ StopSet(t)
    \/ CheckAlive(t)
    \/ ObserverStop(t)
    \/ ObserverJoin(t)

InStart(t) == pc[t] \in {"start_clear", "start_new", "start_run"}
InStop(t) == pc[t] \in {"stop_set", "stop_chk", "stop_stop", "stop_join"}

\* stop() is called while no start() is in progress
StopCall(t) ==
    /\ \A u \in Threads : ~InStart(u)
    /\ Call(t, "stop")

\* Repeated stops: the watcher is started at most once, and stop() is called
\* from both threads, before any start, after it, and while another stop()
\* runs.
NextStop ==
    \/ StartOnce
    \/ StartClear("ctl")
    \/ StartNew("ctl")
    \/ StartRun("ctl")
    \/ \E t \in Threads : StopCall(t)
    \/ \E t \in Threads : StopStep(t)
    \/ ObsStep
    \/ \E n \in LifeNames, mode \in CreateModes : FsCreate(n, mode, LifeChanges)
    \/ \E n \in LifeNames : FsDelete(n, LifeChanges)

\* Every thread that can take a step eventually takes one
SpecStop ==
    /\ InitWatch
    /\ [][NextStop]_vars
    /\ \A t \in Threads : WF_vars(StopStep(t))
    /\ WF_vars(StartClear("ctl") \/ StartNew("ctl") \/ StartRun("ctl"))
    /\ ObsFair

----------------------------------------------------------------------------
(* kappman/gui.py: WatcherThread.  The worker thread runs run_forever; the *)
(* GUI thread ("ctl") calls WatcherThread.stop.                            *)

\* WatcherThread.run: self._watcher.run_forever()
RunThread ==
    /\ calls = 0
    /\ Call("worker", "run_forever")

\* run() has returned
Finished == calls > 0 /\ pc["worker"] = "idle"

\* WatcherThread.stop: self._watcher.stop()
GuiStop ==
    /\ gui = "none"
    /\ calls > 0
    /\ Invoke("ctl", "stop")
    /\ gui' = "watcher_stop"

GuiFrame == UNCHANGED <<fsVars, coreVars, observer, stopEvent, obs, calls, changes, lastH,
                        stopDone, stopInRF, rfStopped>>

\* self.quit(), once self._watcher.stop() has returned
GuiQuit ==
    /\ gui = "watcher_stop"
    /\ pc["ctl"] = "idle"
    /\ gui' = "wait"
    /\ UNCHANGED pc
    /\ GuiFrame

\* A wait without a timeout
GuiWaitUnbounded ==
    /\ gui = "wait"
    /\ Finished
    /\ gui' = "done"
    /\ UNCHANGED pc
    /\ GuiFrame

\* self.wait(_WATCHER_STOP_TIMEOUT_MS): true when the thread has finished,
\* false when the time is up before that
GuiWait ==
    /\ gui = "wait"
    /\ \/ Finished /\ gui' = "done"
       \/ ~Finished /\ gui' = "terminate"
    /\ UNCHANGED pc
    /\ GuiFrame

\* self.terminate()
GuiTerminate ==
    /\ gui = "terminate"
    /\ gui' = "wait_forever"
    /\ pc' = [pc EXCEPT !["worker"] = IF Finished THEN @ ELSE "killed"]
    /\ GuiFrame

\* self.wait()
GuiWaitForever ==
    /\ gui = "wait_forever"
    /\ Finished \/ pc["worker"] = "killed"
    /\ gui' = "done"
    /\ UNCHANGED pc
    /\ GuiFrame

GuiStep ==
    \/ StopStep("ctl")
    \/ GuiQuit
    \/ GuiWait
    \/ GuiTerminate
    \/ GuiWaitForever

WorkerStep ==
    \/ StartClear("worker")
    \/ StartNew("worker")
    \/ StartRun("worker")
    \/ Wait("worker")
    \/ StopStep("worker")

NextGui ==
    \/ RunThread
    \/ WorkerStep
    \/ GuiStop
    \/ GuiStep
    \/ ObsStep
    \/ \E n \in LifeNames, mode \in CreateModes : FsCreate(n, mode, LifeChanges)
    \/ \E n \in LifeNames : FsDelete(n, LifeChanges)

\* The GUI thread and the observer thread keep taking steps; nothing is
\* assumed about the worker thread.
SpecGui ==
    /\ InitWatch
    /\ [][NextGui]_vars
    /\ WF_vars(GuiStep)
    /\ ObsFair

\* WatcherThread.run, with the signals it emits: status_changed before and
\* after run_forever.  app_integrated is declared (gui.py:93) and connected
\* to the list refresh (gui.py:427); no statement emits it.
RunEmitWatching ==
    /\ calls = 0
    /\ signals = <<>>
    /\ signals' = <<"status_changed">>
    /\ UNCHANGED <<fsVars, last, reg, startEmpty, wr, cli, win, th>>
    /\ UNCHANGED watchVars

RunForever ==
    /\ signals # <<>>
    /\ RunThread

RunEmitStopped ==
    /\ Finished
    /\ Len(signals) = 1
    /\ signals' = Append(signals, "status_changed")
    /\ UNCHANGED <<fsVars, last, reg, startEmpty, wr, cli, win, th>>
    /\ UNCHANGED watchVars

\* What the worker thread does
RunStep ==
    \/ RunEmitWatching
    \/ RunForever
    \/ WorkerStep
    \/ RunEmitStopped

NextSignal ==
    \/ RunStep
    \/ GuiStop
    \/ GuiStep
    \/ ObsStep
    \/ \E n \in LifeNames, mode \in CreateModes : FsCreate(n, mode, LifeChanges)
    \/ \E n \in LifeNames : FsDelete(n, LifeChanges)

\* Every thread keeps taking steps
SpecSignal ==
    /\ InitWatch
    /\ [][NextSignal]_vars
    /\ WF_vars(RunStep)
    /\ WF_vars(GuiStep)
    /\ ObsFair

----------------------------------------------------------------------------
(* kappman/gui.py: KAppManWindow and its watcher threads.  The handlers run   *)
(* on the GUI thread, one at a time; WatcherThread.stop returns when the   *)
(* thread has finished or has been terminated.                             *)

MaxThreads == 3
WatchDirs == {DEFAULT_WATCH_DIR, OTHER_DIR}
\* How a WatcherThread.stop() call ends for a thread that is running
StopEnds == {"finished", "killed"}

\* QThread.isRunning
isRunning(w, i) == w.threads[i].state = "running"

\* WatcherThread(watch_dir): AppImageWatcher.__init__ binds watch_dir
WatcherThread(watch_dir) == [dir |-> expanduser(watch_dir), state |-> "running"]

\* _toggle_watcher(checked); end is how stop() ends
toggle_watcher(w, checked, end) ==
    IF checked
    THEN [w EXCEPT !.threads = Append(@, WatcherThread(w.setting)),
                   !.thread = Len(w.threads) + 1]
    ELSE IF w.thread # 0
         THEN [w EXCEPT !.threads[w.thread].state = IF @ = "running" THEN end ELSE @,
                        !.thread = 0]
         ELSE w

\* QPushButton.setChecked: toggled is emitted when the state changes
setChecked(w, checked, end) ==
    IF w.checked = checked THEN w
    ELSE toggle_watcher([w EXCEPT !.checked = checked], checked, end)

\* A restart that starts the new thread first
restart_start_first(w, end) == setChecked([w EXCEPT !.checked = FALSE], TRUE, end)

\* _on_watch_dir_changed: self.btn_watch.setChecked(False)
restart_stop(w, end) == setChecked(w, FALSE, end)

\* _on_watch_dir_changed: self.btn_watch.setChecked(True)
restart_start(w, end) == setChecked(w, TRUE, end)

WinFrame ==
    /\ UNCHANGED <<fsVars, last, reg, startEmpty, wr, signals, cli, th>>
    /\ UNCHANGED watchVars

\* The user presses / releases the watcher button
ClickWatch(end) ==
    /\ win.at = "idle"
    /\ ~win.closed
    /\ ~win.checked => Len(win.threads) < MaxThreads
    /\ win' = setChecked(win, ~win.checked, end)
    /\ WinFrame

\* The user commits a watch directory (SettingsPanel._on_watch_dir_edited,
\* _browse_watch_dir), and _on_watch_dir_changed runs up to and including
\* setChecked(False)
EditWatchDir(d, end) ==
    /\ win.at = "idle"
    /\ ~win.closed
    /\ Len(win.threads) < MaxThreads
    /\ LET w == [win EXCEPT !.setting = d]
       IN  IF w.thread # 0 /\ isRunning(w, w.thread)
           THEN win' = [restart_stop(w, end) EXCEPT !.at = "restart"]
           ELSE win' = w
    /\ WinFrame

\* ... and then setChecked(True)
RestartWatcher ==
    /\ win.at = "restart"
    /\ win' = [restart_start(win, "finished") EXCEPT !.at = "idle"]
    /\ WinFrame

\* run() returns by itself: run_forever has raised, or the watcher was
\* stopped by another caller
ThreadEnds(i) ==
    /\ isRunning(win, i)
    /\ win' = [win EXCEPT !.threads[i].state = "finished"]
    /\ WinFrame

\* KAppManWindow.closeEvent
CloseWindow(end) ==
    /\ win.at = "idle"
    /\ ~win.closed
    /\ win' = [win EXCEPT !.closed = TRUE,
                          !.threads = IF win.thread # 0 /\ isRunning(win, win.thread)
                                      THEN [@ EXCEPT ![win.thread].state = end] ELSE @]
    /\ WinFrame

NextWin ==
    \/ \E end \in StopEnds : ClickWatch(end)
    \/ \E d \in WatchDirs, end \in StopEnds : EditWatchDir(d, end)
    \/ RestartWatcher
    \/ \E i \in 1..Len(win.threads) : ThreadEnds(i)
    \/ \E end \in StopEnds : CloseWindow(end)

SpecWin == Init /\ [][NextWin]_vars

----------------------------------------------------------------------------
(* remove_appimage and list_integrated step by step, called by the GUI     *)
(* thread (_remove_selected, _refresh_list) and by the observer thread     *)
(* (on_deleted) at the same time.                                          *)

ConcNames == {FOO_APPIMAGE, FOO_TWICE}
ConcPaths == {Join(CWD, n) : n \in ConcNames}

\* The file system after the bundles have been integrated
Integrated(F, names) ==
    LET a == integrate_appimage(F, Join(CWD, FOO_APPIMAGE), FALSE, {}, FALSE)
        b == integrate_appimage(IF FOO_APPIMAGE \in names THEN a ELSE F,
                                Join(CWD, FOO_TWICE), FALSE, {}, FALSE)
    IN  IF FOO_TWICE \in names THEN b ELSE IF FOO_APPIMAGE \in names THEN a ELSE F

InitConc ==
    /\ files = [f \in ConcPaths |-> 420]
    /\ \E names \in {ConcNames, {FOO_APPIMAGE}} :
          LET r == Integrated([files |-> files, apps |-> <<>>, icons |-> {}, dirs |-> {}],
                              names)
          IN  /\ apps = r.apps
              /\ icons = r.icons
              /\ dirs = r.dirs
    /\ InitCore
    /\ InitWatcher

ConcFrame ==
    /\ UNCHANGED <<last, reg, startEmpty, wr, signals, cli, win>>
    /\ UNCHANGED watchVars

\* remove_appimage up to and including `if not dp.exists(): return False`
RemoveCheck(t, p) ==
    LET dp == desktop_name(sanitize_name(resolve(p)))
    IN  /\ th[t].at = "idle"
        /\ th' = [th EXCEPT ![t] =
                     IF dp \in DOMAIN apps
                     THEN [NO_OP EXCEPT !.op = "remove", !.at = "unlink", !.arg = p,
                                        !.had = TRUE]
                     ELSE [NO_OP EXCEPT !.op = "remove", !.at = "done", !.arg = p,
                                        !.ret = "False"]]
        /\ UNCHANGED fsVars
        /\ ConcFrame

\* dp.unlink(): raises FileNotFoundError when the file is gone; then the
\* icon loop and `return True`
RemoveUnlink(t) ==
    LET app_name == sanitize_name(resolve(th[t].arg))
        dp == desktop_name(app_name)
        r == remove_icon(FS, app_name)
    IN  /\ th[t].at = "unlink"
        /\ IF dp \notin DOMAIN apps
           THEN /\ th' = [th EXCEPT ![t].at = "done", ![t].exc = "FileNotFoundError"]
                /\ UNCHANGED fsVars
           ELSE /\ apps' = Without(apps, dp)
                /\ icons' = r.icons
                /\ th' = [th EXCEPT ![t].at = "done", ![t].exc = r.exc,
                                    ![t].ret = IF r.exc = "None" THEN "True" ELSE "None"]
                /\ UNCHANGED <<files, dirs>>
        /\ ConcFrame

\* list_integrated up to and including sorted(APPLICATIONS_DIR.glob(...))
ListScan(t) ==
    /\ th[t].at = "idle"
    /\ th' = [th EXCEPT ![t] =
                 IF "applications" \notin dirs
                 THEN [NO_OP EXCEPT !.op = "list", !.at = "done", !.ret = "list"]
                 ELSE [NO_OP EXCEPT !.op = "list", !.at = "read",
                                    !.names = sorted(glob_desktop(FS)),
                                    !.scan = sorted(glob_desktop(FS))]]
    /\ UNCHANGED fsVars
    /\ ConcFrame

\* One round of the loop: desktop_file.read_text(...), which raises
\* FileNotFoundError when the file is gone, and the entry built from the
\* content; `return results` after the last round
ListRead(t) ==
    /\ th[t].at = "read"
    /\ IF th[t].names = <<>>
       THEN th' = [th EXCEPT ![t].at = "done", ![t].ret = "list"]
       ELSE LET desktop_file == Head(th[t].names)
            IN  IF desktop_file \notin DOMAIN apps
                THEN th' = [th EXCEPT ![t].at = "done", ![t].exc = "FileNotFoundError"]
                ELSE th' = [th EXCEPT ![t].names = Tail(@),
                                      ![t].out = @ \o list_entries(FS, <<desktop_file>>)]
    /\ UNCHANGED fsVars
    /\ ConcFrame

\* The caller goes on to its next call
CallEnds(t) ==
    /\ th[t].at = "done"
    /\ th' = [th EXCEPT ![t] = NO_OP]
    /\ UNCHANGED fsVars
    /\ ConcFrame

NextConc ==
    \/ \E t \in Callers, p \in ConcPaths : RemoveCheck(t, p)
    \/ \E t \in Callers : RemoveUnlink(t)
    \/ ListScan("gui")
    \/ ListRead("gui")
    \/ \E t \in Callers : CallEnds(t)

SpecConc == InitConc /\ [][NextConc]_vars

----------------------------------------------------------------------------
(* kappman/main.py: main(argv), called by the console script with          *)
(* argv = None (argparse then reads sys.argv[1:]) or by another program    *)
(* with an argument list of its own.  An argument list is a sequence of    *)
(* strings, sys_argv is the process's sys.argv.                            *)

PROG == <<"kappman">>
PYTEST == <<"pytest">>
OPT_WATCH == <<"--watch">>
OPT_INTEGRATE == <<"--integrate">>
OPT_REMOVE == <<"--remove">>
OPT_LIST == <<"--list">>

\* parser.parse_args(argv) for the argument lists of the documented modes;
\* an option that lacks its PATH ends the process (SystemExit(2)).
\* --watch has nargs="?" and const=None: without DIR it stores None.
parse_args(argv) ==
    LET none == [watch |-> NONE, integrate |-> NONE, remove |-> NONE, list |-> FALSE,
                 error |-> FALSE]
    IN  IF argv = <<>> THEN none
        ELSE IF argv[1] = OPT_WATCH
             THEN IF Len(argv) = 1 THEN none ELSE [none EXCEPT !.watch = argv[2]]
        ELSE IF argv[1] = OPT_INTEGRATE
             THEN IF Len(argv) = 1 THEN [none EXCEPT !.error = TRUE]
                  ELSE [none EXCEPT !.integrate = argv[2]]
        ELSE IF argv[1] = OPT_REMOVE
             THEN IF Len(argv) = 1 THEN [none EXCEPT !.error = TRUE]
                  ELSE [none EXCEPT !.remove = argv[2]]
        ELSE IF argv[1] = OPT_LIST /\ Len(argv) = 1 THEN [none EXCEPT !.list = TRUE]
        ELSE [none EXCEPT !.error = TRUE]

\* The outcome of main: the mode that ran, the watcher's directory, the
\* exit code ("None" when main did not return), the exception that left
\* main, the display name printed, and the file system afterwards.
main_result(F, ran, dir, code, exc, out) ==
    [files |-> F.files, apps |-> F.apps, icons |-> F.icons, dirs |-> F.dirs,
     ran |-> ran, dir |-> dir, code |-> code, exc |-> exc, out |-> out]

\* main.py:85
watch_requested(args, sys_argv) ==
    args.watch # NONE \/ (Len(sys_argv) > 1 /\ OPT_WATCH \in Range(sys_argv))

\* main.py:108-113
exit_code_of_remove(removed) == IF removed THEN "0" ELSE "1"

main(F, argv, sys_argv, tool, tree, fails) ==
    LET args == parse_args(argv)
    IN  IF args.error THEN main_result(F, "usage", <<>>, "2", "SystemExit", <<>>)
        ELSE IF watch_requested(args, sys_argv)
        THEN \* AppImageWatcher(watch_dir).run_forever(), until Ctrl-C
             main_result(F, "watch",
                         expanduser(IF args.watch # NONE /\ args.watch # <<>>
                                    THEN args.watch ELSE DEFAULT_WATCH_DIR),
                         "0", "None", <<>>)
        ELSE IF args.integrate # NONE /\ args.integrate # <<>>
        THEN LET r == integrate_appimage(F, args.integrate, tool, tree, fails)
             IN  main_result(r, "integrate", <<>>,
                             IF r.exc = "None" THEN "0"
                             ELSE IF r.exc = "FileNotFoundError" THEN "1"
                             ELSE "None",
                             IF r.exc = "FileNotFoundError" THEN "None" ELSE r.exc,
                             IF r.exc = "None" THEN r.entry.app_name ELSE <<>>)
        ELSE IF args.remove # NONE /\ args.remove # <<>>
        THEN LET r == remove_appimage(F, args.remove)
             IN  main_result(r, "remove", <<>>,
                             IF r.exc # "None" THEN "None"
                             ELSE exit_code_of_remove(r.ret = "True"),
                             r.exc,
                             IF r.ret = "True" THEN path_stem(path_name(args.remove))
                             ELSE <<>>)
        ELSE IF args.list
        THEN \* list_integrated() is only printed
             main_result(F, "list", <<>>, "0", "None", <<>>)
        ELSE \* launch_gui()
             main_result(F, "gui", <<>>, "0", "None", <<>>)

\* Bundle files in the working directory, and the PATH arguments of the
\* command line: these files and one that does not exist
GONE_APPIMAGE == <<"Gone", ".AppImage">>
CliNames == {FOO_APPIMAGE, BARE_SUFFIX}
CliPaths == CliNames \cup {GONE_APPIMAGE}
CliDirs == {OTHER_DIR}
ArgvCases ==
    {<<>>, <<OPT_WATCH>>, <<OPT_LIST>>, <<OPT_INTEGRATE>>}
    \cup {<<OPT_WATCH, d>> : d \in CliDirs}
    \cup {<<OPT_INTEGRATE, n>> : n \in CliPaths}
    \cup {<<OPT_REMOVE, n>> : n \in CliPaths}
\* sys.argv of the process that calls main(argv): the console script
\* (argv is sys.argv[1:]), a test runner, and a program that was itself
\* started with --watch
SysArgvCases(argv) == {<<PROG>> \o argv, <<PYTEST>>, <<PROG, OPT_WATCH>>}

MainCall(argv, sys_argv, x) ==
    LET r == main(FS, argv, sys_argv, x.tool, x.tree, x.fails)
        path == IF Len(argv) = 2 THEN resolve(argv[2]) ELSE <<>>
    IN  /\ SetFS(r)
        /\ cli' = [argv |-> argv, sys_argv |-> sys_argv, ran |-> r.ran, dir |-> r.dir,
                   code |-> r.code, exc |-> r.exc, out |-> r.out,
                   \* history: the bundle and its descriptor before the call
                   existed |-> path \in DOMAIN files,
                   had |-> desktop_name(sanitize_name(path)) \in DOMAIN apps]
        /\ UNCHANGED <<last, reg, startEmpty, wr, signals, win, th>>
        /\ UNCHANGED watchVars

InitCli ==
    /\ files = [f \in {Join(CWD, n) : n \in CliNames} |-> 420]
    /\ apps \in ForeignDirs
    /\ icons = {}
    /\ dirs = IF apps = <<>> THEN {} ELSE {"applications"}
    /\ InitCore
    /\ InitWatcher

NextCli ==
    \E argv \in ArgvCases, x \in CliExtractCases :
       \E sys_argv \in SysArgvCases(argv) : MainCall(argv, sys_argv, x)

SpecCli == InitCli /\ [][NextCli]_vars

----------------------------------------------------------------------------
(* Claims about the core functions *)

\* A descriptor carries the marker key: one of its lines starts with it
has_marker_key(content) ==
    \E i \in 1..Len(splitlines(content)) : startswith_marker(splitlines(content)[i])

ListedPairs(F) ==
    {[displayName |-> e.app_name, sourcePath |-> e.exec_path] : e \in Range(list_integrated(F))}

\* C1: starting from an applications directory without descriptors, list()
\* returns exactly one entry per display name integrated and not removed
\* since, named by the suffix-stripped file name and carrying the absolute
\* path most recently integrated under that name.
C1_ListIsRegistry ==
    startEmpty =>
        /\ Len(list_integrated(FS)) = Cardinality(DOMAIN reg)
        /\ ListedPairs(FS) = {[displayName |-> n, sourcePath |-> reg[n]] : n \in DOMAIN reg}

DescriptorOf(p) == desktop_name(sanitize_name(resolve(p)))
Listed(F, p) == \E e \in Range(list_integrated(F)) : e.desktop_path = Join(APPLICATIONS_DIR, DescriptorOf(p))

\* C2: remove(p) right after a successful integrate(p) returns true, deletes
\* the descriptor and takes it out of list(); a second remove(p) returns
\* false and changes nothing; remove(p) without a descriptor returns false.
C2_RemoveAfterIntegrate ==
    [][\A p \in CallPaths :
        /\ (last.op = "integrate" /\ last.arg = p /\ last.exc = "None" /\ Remove(p))
              => /\ last'.ret = "True" /\ last'.exc = "None"
                 /\ DescriptorOf(p) \notin DOMAIN apps'
                 /\ ~Listed(FS', p)
        /\ (last.op = "remove" /\ last.arg = p /\ last.ret = "True" /\ Remove(p))
              => /\ last'.ret = "False" /\ last'.exc = "None"
                 /\ UNCHANGED fsVars
        /\ (DescriptorOf(p) \notin DOMAIN apps /\ Remove(p))
              => /\ last'.ret = "False" /\ last'.exc = "None"
                 /\ UNCHANGED fsVars
      ]_vars

\* C3: a descriptor without the marker key is never modified or deleted.
C3_ForeignUntouched ==
    [][\A f \in DOMAIN apps :
        ~has_marker_key(apps[f]) => (f \in DOMAIN apps' /\ apps'[f] = apps[f])
      ]_vars

\* C4: list() has an entry for a descriptor iff one of its lines has the
\* marker key; entries are in ascending file-name order; each sourcePath is
\* the value of the marker line.
C4_ListIffMarkerKey ==
    LET L == list_integrated(FS)
        owned == {f \in DOMAIN apps : endswith(f, ".desktop") /\ has_marker_key(apps[f])}
    IN  /\ {e.desktop_path : e \in Range(L)} = {Join(APPLICATIONS_DIR, f) : f \in owned}
        /\ Len(L) = Cardinality(owned)
        /\ \A i \in 1..(Len(L) - 1) :
              StrLess(path_name(L[i].desktop_path), path_name(L[i + 1].desktop_path))
        /\ \A e \in Range(L) :
              LET lines == splitlines(apps[path_name(e.desktop_path)])
              IN  \E i \in 1..Len(lines) :
                    /\ startswith_marker(lines[i])
                    /\ e.exec_path = SubSeq(lines[i], 3, Len(lines[i]))

\* C5: integrate(p) on a path that does not exist raises FileNotFoundError
\* and leaves every descriptor file and icon file as it was.
C5_MissingBundleNoChange ==
    [][\A p \in CallPaths, x \in ExtractCases :
        (resolve(p) \notin DOMAIN files /\ Integrate(p, x.tool, x.tree, x.fails))
          => /\ last'.exc = "FileNotFoundError"
             /\ apps' = apps
             /\ icons' = icons
      ]_vars

\* C5's case: a failed integrate in a registry that holds descriptors and icons
C5_Witness ==
    /\ last.op = "integrate"
    /\ last.exc = "FileNotFoundError"
    /\ resolve(last.arg) \notin DOMAIN files
    /\ DescriptorOf(last.arg) \in DOMAIN apps
    /\ icons # {}

----------------------------------------------------------------------------
(* Claims about the watcher *)

\* C6: once stop() has returned and no start was invoked after it, no
\* observer of the watcher is running, so no event is dispatched any more.
C6_StopQuiesces ==
    stopDone => \A i \in 1..Len(obs) : ~is_alive(obs[i])

\* C7: a stop() called after run_forever() was invoked is never lost: when
\* it has returned, run_forever is not left waiting on a cleared event.
C7_StopNeverLost ==
    (rfStopped /\ pc["worker"] = "rf_wait") => stopEvent

\* C8: no exception leaves an event handler, and no observer thread ends
\* because of one.
C8_HandlerNeverRaises ==
    /\ lastH.exc = "None"
    /\ \A i \in 1..Len(obs) : obs[i].state # "crashed"

CreatedThenDeleted ==
    /\ lastH.prev.type = "created"
    /\ lastH.ev.type = "deleted"
    /\ lastH.prev.src_path = lastH.ev.src_path
    /\ ~lastH.ev.is_directory
    /\ is_appimage(lastH.ev.src_path)

\* C9: when a monitor has handled a created event and next a deleted event
\* for the same bundle name, no descriptor is present for its display name.
C9_CreateThenDeleteLeavesNothing ==
    CreatedThenDeleted => DescriptorOf(lastH.ev.src_path) \notin DOMAIN apps

\* C9's case: the created event integrated the bundle, the deleted event
\* removed its descriptor
C9_Witness ==
    /\ CreatedThenDeleted
    /\ Len(lastH.called) = 1
    /\ lastH.called[1].op = "remove"
    /\ lastH.called[1].result = "True"

CalledOps(h) == [i \in 1..Len(h.called) |-> <<h.called[i].op, h.called[i].arg>>]

\* C10: a moved event of a file is remove(old) then integrate(new), each
\* only for a path with the bundle extension, and afterwards the new name's
\* descriptor exists when the new file exists.
C10_MoveIsRemoveThenIntegrate ==
    (lastH.ev.type = "moved" /\ ~lastH.ev.is_directory) =>
        LET src == lastH.ev.src_path
            dest == lastH.ev.dest_path
        IN  /\ CalledOps(lastH) =
                  (IF is_appimage(src) THEN << <<"remove", src>> >> ELSE <<>>)
                  \o (IF is_appimage(dest) THEN << <<"integrate", dest>> >> ELSE <<>>)
            /\ (is_appimage(dest) /\ lastH.destExisted) =>
                  /\ DescriptorOf(dest) \in DOMAIN apps
                  /\ marker_value(apps[DescriptorOf(dest)]) = dest

\* C11: two distinct bundle files that are present in the watched directory
\* and accepted by the monitor never share a display name, so the removal a
\* deleted event triggers never deletes a descriptor whose marker points to
\* another bundle that still exists.
C11_IdentityUniquePerBundle ==
    [][/\ \A a \in DOMAIN files', b \in DOMAIN files' :
             (a # b /\ is_appimage(a) /\ is_appimage(b))
                => sanitize_name(a) # sanitize_name(b)
       /\ \A i \in 1..Len(obs), x \in WatchExtractCases :
             (obs[i].cur.type = "deleted" /\ ObsHandle(i, x))
                => \A f \in (DOMAIN apps) \ (DOMAIN apps') :
                      \/ marker_value(apps[f]) = obs[i].cur.src_path
                      \/ marker_value(apps[f]) \notin DOMAIN files
      ]_vars

\* C12: for every file name the monitor's extension filter accepts, the
\* display name integrate and remove derive is the file name with its
\* recognized suffix stripped, and that is the descriptor they work on.
C12_AcceptedNameIsStripped ==
    \A i \in 1..Len(lastH.called) :
        LET c == lastH.called[i]
        IN  /\ sanitize_name(resolve(c.arg)) = Front(path_name(c.arg))
            /\ c.result = "dict" => desktop_name(Front(path_name(c.arg))) \in DOMAIN apps

----------------------------------------------------------------------------
(* Claims about integrate and remove in the wider environment *)

\* Bit k of a file mode
Bit(m, k) == (m \div (2 ^ k)) % 2
EXEC_BITS == {0, 3, 6}
HasExecBits(m) == \A k \in EXEC_BITS : Bit(m, k) = 1

\* C13: after a successful integrate(p) the descriptor of p's display name
\* has Name=<displayName>, its Exec line and its marker line carry the
\* absolute path of p, the returned entry reports that name and path, and p
\* has its three execute bits set with every other mode bit unchanged.
C13_IntegrateWritesDescriptor ==
    [][\A p \in EnvPaths, x \in EnvExtractCases :
        (Integrate(p, x.tool, x.tree, x.fails) /\ last'.exc = "None") =>
            LET path == abspath(expanduser(p))
                name == Front(path_name(path))
                dp == name \o <<".desktop">>
            IN  /\ dp \in DOMAIN apps'
                /\ (<<"Name", EQ>> \o name) \in Range(splitlines(apps'[dp]))
                /\ (<<"Exec", EQ>> \o path) \in Range(splitlines(apps'[dp]))
                /\ (<<MARKER, EQ>> \o path) \in Range(splitlines(apps'[dp]))
                /\ last'.entry.app_name = name
                /\ last'.entry.exec_path = path
                /\ last'.entry.desktop_path = Join(APPLICATIONS_DIR, dp)
                /\ \A k \in 0..11 :
                      Bit(files'[path], k) = IF k \in EXEC_BITS THEN 1 ELSE Bit(files[path], k)
      ]_vars

\* C13's case: a bundle written with mode 0o600 was integrated (now 0o711)
\* with an icon
C13_Witness ==
    /\ last.op = "integrate"
    /\ last.exc = "None"
    /\ resolve(last.arg) \in DOMAIN files
    /\ files[resolve(last.arg)] = 457
    /\ last.entry.icon_path # NONE

\* The second of two integrate(p) calls in a row on the existing bundle p,
\* meeting the same icon in the image
RepeatsIntegrate(p, x) ==
    /\ last.op = "integrate"
    /\ last.arg = p
    /\ last.exc = "None"
    /\ resolve(p) \in DOMAIN files
    /\ HasExecBits(files[resolve(p)])
    /\ LET e == extract_icon(FS, sanitize_name(resolve(p)), x.tool, x.tree, x.fails)
       IN  last.entry.icon_path = IF e.found THEN Join(ICONS_DIR, e.icon) ELSE NONE
    /\ Integrate(p, x.tool, x.tree, x.fails)

\* C14: integrate is idempotent: a second integrate(p) leaves the descriptor
\* files, the icon files and the file modes as the first left them, and
\* returns the same entry.
C14_IntegrateIdempotent ==
    [][\A p \in EnvPaths, x \in EnvExtractCases :
        RepeatsIntegrate(p, x) =>
            /\ apps' = apps
            /\ icons' = icons
            /\ files' = files
            /\ last'.exc = "None"
            /\ last'.entry = last.entry
      ]_vars

\* C14's case: an integrate that repeated the previous one, with an icon
C14_Witness ==
    /\ last.op = "integrate"
    /\ last.again
    /\ last.entry.icon_path # NONE
    /\ icons # {}

\* C15: integrate(p) raises only when p does not exist; for an existing p
\* it returns an entry.
C15_RaisesOnlyNotFound ==
    [][\A p \in EnvPaths, x \in EnvExtractCases :
        (resolve(p) \in DOMAIN files /\ Integrate(p, x.tool, x.tree, x.fails))
            => (last'.exc = "None" /\ last'.ret = "dict")
      ]_vars

\* C16: after remove(p) has returned true, the icons directory holds no
\* asset named <displayName> with any extension icon extraction produces.
C16_RemoveLeavesNoIcon ==
    (last.op = "remove" /\ last.ret = "True") =>
        \A suffix \in {".png", ".svg", ""} :
            icon_name(sanitize_name(resolve(last.arg)), suffix) \notin icons

\* C17: the descriptor write is atomic: while an integrated bundle is being
\* integrated again, the descriptor holds its old or its new complete
\* content and a list() on another thread has an entry for it.
C17_DescriptorWriteAtomic ==
    (wr # NO_WRITE /\ has_marker_key(wr.old)) =>
        /\ wr.name \in DOMAIN apps
        /\ apps[wr.name] \in {wr.old, wr.content}
        /\ wr.seen # "missing"

----------------------------------------------------------------------------
(* Claims about the watcher's lifecycle *)

\* C18: stop() is idempotent: whether it is called again after a stop()
\* returned, while another stop() runs, or without any start(), it raises
\* nothing, it returns, and it leaves the stop signal set and no observer
\* running.
C18_StopIdempotent ==
    /\ [](stopDone => (stopEvent /\ \A i \in 1..Len(obs) : ~is_alive(obs[i])))
    /\ [][\A t \in Threads :
            ObserverJoin(t) => obs[observer].state \in {"dead", "crashed"}]_vars
    /\ \A t \in Threads : (InStop(t) ~> (pc[t] = "idle"))

\* C18's case: the watcher was started, handled an event and was stopped
\* by two stop() calls, which all have returned
C18_Witness ==
    /\ stopDone
    /\ calls = 3
    /\ \A t \in Threads : pc[t] = "idle"
    /\ Len(obs) = 1
    /\ obs[1].state = "dead"
    /\ lastH.obs = 1

\* C19: the lifecycle is Idle -> Running -> StopRequested -> Stopped: only
\* the first start() takes effect, so the only observer that ever runs is
\* the first one, and never more than one runs.
C19_LifecycleOneWay ==
    /\ \A i \in 1..Len(obs) : is_alive(obs[i]) => i = 1
    /\ Cardinality({i \in 1..Len(obs) : is_alive(obs[i])}) <= 1

\* C20: WatcherThread.stop() always returns to the GUI thread, whatever
\* the worker thread does, and when it has returned the worker has
\* finished or has been terminated.
C20_GuiStopReturns ==
    /\ [](gui = "done" => (Finished \/ pc["worker"] = "killed"))
    /\ ((gui = "watcher_stop") ~> (gui = "done"))

\* C20's case: the worker did not leave run_forever within the wait and
\* was terminated
C20_Witness ==
    /\ gui = "done"
    /\ pc["worker"] = "killed"

\* The file system after the step
FSNext == [files |-> files', apps |-> apps', icons |-> icons', dirs |-> dirs']

\* C22: remove(p) leaves the bundle files as they are, p included; and a
\* bundle file that is deleted while no watcher runs takes nothing with it:
\* the descriptors, the icons and the result of list() stay as they were.
C22_RemoveKeepsBundle ==
    [][/\ \A p \in CallPaths : Remove(p) => files' = files
       /\ \A n \in BundleNames :
              DeleteFile(n) => /\ apps' = apps
                               /\ icons' = icons
                               /\ list_integrated(FSNext) = list_integrated(FS)]_vars

\* C22's case: a removal has deleted the descriptor of a bundle that is
\* on disk, and the descriptor of a bundle that was deleted is listed
C22_Witness ==
    /\ last.op = "remove"
    /\ last.ret = "True"
    /\ resolve(last.arg) \in DOMAIN files
    /\ \E e \in Range(list_integrated(FS)) : e.exec_path \notin DOMAIN files

\* The events the handler is to ignore: created and deleted events of a
\* directory or of a path that does not end with .appimage, whatever the
\* case, and moved events of a directory
IgnoredEvent(ev) ==
    \/ /\ ev.type \in {"created", "deleted"}
       /\ \/ ev.is_directory
          \/ lower_tok(Last(ev.src_path)) # ".appimage"
    \/ /\ ev.type = "moved"
       /\ ev.is_directory

\* C26: handling an event that is to be ignored calls neither integrate
\* nor remove and leaves the descriptors, the icons and the modes of the
\* bundle files as they are.
C26_IgnoredEventsDoNothing ==
    [][\A i \in 1..Len(obs), x \in LifeExtractCases :
        (ObsHandle(i, x) /\ IgnoredEvent(obs[i].cur)) =>
            /\ lastH'.called = <<>>
            /\ lastH'.exc = "None"
            /\ apps' = apps
            /\ icons' = icons
            /\ files' = files
      ]_vars

\* C26's case: the deleted event of the directory Foo.appimage was handled
\* while the descriptor of the bundle Foo.AppImage was present
C26_Witness ==
    /\ lastH.ev.type = "deleted"
    /\ lastH.ev.is_directory
    /\ lastH.ev.src_path = Join(CWD, FOO_LOWER)
    /\ <<"Foo", ".desktop">> \in DOMAIN apps

\* C27: icon extraction never makes integrate fail.  When unsquashfs is
\* missing, times out or raises, or the image holds no icon, the call
\* returns, the descriptor names the generic icon, the entry has no icon
\* path, and the scratch directory of the extraction is gone.
C27_ExtractionNeverFailsIntegrate ==
    [][\A p \in EnvPaths, x \in EnvExtractCases :
        (/\ Integrate(p, x.tool, x.tree, x.fails)
         /\ resolve(p) \in DOMAIN files
         /\ owned_by_user(resolve(p))
         /\ (~x.tool \/ x.fails \/ x.tree = {})) =>
            LET dp == Front(path_name(resolve(p))) \o <<".desktop">>
            IN  /\ last'.exc = "None"
                /\ last'.ret = "dict"
                /\ dp \in DOMAIN apps'
                /\ <<"Icon", EQ, "application-x-executable">> \in Range(splitlines(apps'[dp]))
                /\ last'.entry.icon_path = NONE
                /\ "scratch" \notin dirs'
      ]_vars

\* C27's case: an integration has returned an entry without an icon, over
\* a descriptor that named an extracted icon
C27_Witness ==
    /\ last.op = "integrate"
    /\ last.exc = "None"
    /\ last.entry.icon_path = NONE
    /\ icons # {}
    /\ "scratch" \notin dirs
    /\ <<"Icon", EQ, "application-x-executable">>
           \in Range(splitlines(apps[desktop_name(last.entry.app_name)]))

\* The observer thread of the WatcherThread has integrated a bundle
WatcherIntegrated ==
    \E k \in 1..Len(lastH.called) :
        lastH.called[k].op = "integrate" /\ lastH.called[k].result = "dict"

\* C21: on a running WatcherThread every successful integration by the
\* watcher is followed by an emission of app_integrated (which refreshes
\* the list of the window).
C21_IntegrationEmitsSignal ==
    WatcherIntegrated ~> ("app_integrated" \in Range(signals))

\* The watcher threads of the window that are running
RunningThreads(w) == {i \in 1..Len(w.threads) : w.threads[i].state = "running"}

\* C28: a watcher's watch_dir never changes after construction; a watcher
\* thread is started only when no other thread of the window is running
\* (the old one's stop() has returned) and is bound to the directory of
\* the setting; at no time are two watcher threads of the window running.
C28_OneWatcherThread ==
    /\ [](Cardinality(RunningThreads(win)) <= 1)
    /\ [][/\ \A i \in 1..Len(win.threads) : win'.threads[i].dir = win.threads[i].dir
          /\ Len(win'.threads) > Len(win.threads) =>
                /\ RunningThreads(win) = {}
                /\ Len(win'.threads) = Len(win.threads) + 1
                /\ win'.threads[Len(win'.threads)].dir = win'.setting
                /\ win'.thread = Len(win'.threads)]_vars

\* C28's case: the watch directory was changed while the first thread was
\* running; that thread was terminated by stop() and the second thread
\* runs on the new directory
C28_Witness ==
    /\ Len(win.threads) = 2
    /\ win.at = "idle"
    /\ win.threads[1] = [dir |-> DEFAULT_WATCH_DIR, state |-> "killed"]
    /\ win.threads[2] = [dir |-> OTHER_DIR, state |-> "running"]
    /\ win.thread = 2

\* C29: when two remove calls for the same display name overlap and its
\* descriptor exists, exactly one returns True, the other returns False,
\* and neither raises.
C29_ConcurrentRemoveOneWins ==
    (/\ \A t \in Callers : th[t].op = "remove" /\ th[t].at = "done"
     /\ sanitize_name(th["gui"].arg) = sanitize_name(th["observer"].arg)
     /\ \E t \in Callers : th[t].had) =>
        /\ \A t \in Callers : th[t].exc = "None"
        /\ {th[t].ret : t \in Callers} = {"True", "False"}

\* C30: a list() that overlaps a remove on another thread raises nothing,
\* and its result has an entry for every owned descriptor that was there
\* from its directory scan to its return.
C30_ListDuringRemove ==
    (th["gui"].op = "list" /\ th["gui"].at = "done") =>
        /\ th["gui"].exc = "None"
        /\ \A f \in Range(th["gui"].scan) :
              (f \in DOMAIN apps /\ has_marker_key(apps[f])) =>
                  \E e \in Range(th["gui"].out) : e.desktop_path = Join(APPLICATIONS_DIR, f)

----------------------------------------------------------------------------
(* Claims about the window, concurrent calls and the command line *)

\* C23: main(argv) runs the headless watcher exactly when argv contains
\* --watch, on DIR when one is given and on the configured directory
\* otherwise, whatever the process's own sys.argv holds.
C23_WatchIffArgvHasWatch ==
    cli.ran # "none" =>
        /\ (cli.ran = "watch") <=> (OPT_WATCH \in Range(cli.argv))
        /\ cli.ran = "watch" =>
               cli.dir = IF Len(cli.argv) = 2 THEN cli.argv[2] ELSE DEFAULT_WATCH_DIR

\* C24: exit codes of the console script: --integrate PATH gives 0 on
\* success and 1 when PATH does not exist, --remove PATH gives 0 when a
\* descriptor was removed and 1 when there was none, --list gives 0.
C24_ExitCodes ==
    (cli.argv # <<>> /\ cli.sys_argv = <<PROG>> \o cli.argv) =>
        /\ (cli.argv[1] = OPT_INTEGRATE /\ Len(cli.argv) = 2 /\ ~cli.existed)
              => cli.code = "1"
        /\ (cli.argv[1] = OPT_INTEGRATE /\ Len(cli.argv) = 2 /\ cli.exc = "None"
              /\ cli.existed) => cli.code = "0"
        /\ (cli.argv[1] = OPT_REMOVE /\ ~cli.had) => cli.code = "1"
        /\ (cli.argv[1] = OPT_REMOVE /\ cli.had
              /\ desktop_name(sanitize_name(resolve(cli.argv[2]))) \notin DOMAIN apps)
              => cli.code = "0"
        /\ cli.argv[1] = OPT_LIST => cli.code = "0"

\* C25: the display name is the file name without one trailing .AppImage
\* or .appimage, and the file name itself when it has no such suffix:
\* Foo.AppImage gives Foo, foo.appimage gives foo, NoSuffix gives NoSuffix,
\* Foo.AppImage.AppImage gives Foo.AppImage.
C25_StripsOneSuffix ==
    (last.op = "integrate" /\ last.exc = "None") =>
        LET name == last.arg
            out == last.entry.app_name
        IN  /\ out = IF name # <<>> /\ Last(name) \in {".AppImage", ".appimage"}
                     THEN SubSeq(name, 1, Len(name) - 1) ELSE name
            /\ name = <<"Foo", ".AppImage">> => out = <<"Foo">>
            /\ name = <<"foo", ".appimage">> => out = <<"foo">>
            /\ name = <<"NoSuffix">> => out = <<"NoSuffix">>
            /\ name = <<"Foo", ".AppImage", ".AppImage">> => out = <<"Foo", ".AppImage">>
            /\ desktop_name(out) \in DOMAIN apps

\* C25's case: a bundle whose name ends with the suffix twice was
\* integrated, after one without the suffix
C25_Witness ==
    /\ last.op = "integrate"
    /\ last.exc = "None"
    /\ last.arg = FOO_TWICE
    /\ <<"NoSuffix", ".desktop">> \in DOMAIN apps
    /\ <<"Foo", ".AppImage", ".desktop">> \in DOMAIN apps

----------------------------------------------------------------------------
(* Claims about list and remove together *)

\* The entries of list() whose descriptor integrate wrote for a path that
\* has not been removed since, each with the descriptor's file name
IntegratedEntries ==
    {<<e, f>> \in Range(list_integrated(FS)) \X DOMAIN apps :
        /\ e.desktop_path = Join(APPLICATIONS_DIR, f)
        /\ \E name \in DOMAIN reg : f = name \o <<".desktop">> /\ reg[name] = e.exec_path}

\* C31: list and remove round trip.  For every entry e that list() returns
\* for a descriptor written by integrate, the display name derived from
\* e's source path is e's name, which is the stem of the descriptor's file
\* name, and remove(e.sourcePath) returns True and deletes exactly e's
\* descriptor.
C31_ListRemoveRoundTrip ==
    /\ [](\A ef \in IntegratedEntries :
            /\ sanitize_name(ef[1].exec_path) = ef[1].app_name
            /\ ef[1].app_name \o <<".desktop">> = ef[2])
    /\ [][\A p \in CallPaths :
            (Remove(p) /\ \E ef \in IntegratedEntries : ef[1].exec_path = resolve(p)) =>
                /\ last'.exc = "None"
                /\ last'.ret = "True"
                /\ \A ef \in IntegratedEntries :
                      ef[1].exec_path = resolve(p) => apps' = Without(apps, ef[2])]_vars

====
